---- MODULE Spec2Model ----
(***************************************************************************)
(* A model of the station retrieval of get_AWDB_stations_3.py: the pure    *)
(* helpers grouper and validate_station_data, the worker process           *)
(* get_multiple_stations_thread, the launcher process get_stations and the *)
(* consumer loop of get_network_stations, which talk through one           *)
(* multiprocessing.Queue.                                                  *)
(*                                                                         *)
(* Python values: a list is a sequence, a dict a function whose domain is  *)
(* its key set, None the string "None".  Every process owns a copy of the  *)
(* lists it was given (processes share no memory).                         *)
(*                                                                         *)
(* multiprocessing.Queue: put() appends the object to a buffer of the      *)
(* calling process; a feeder thread of that process later writes the       *)
(* buffered objects, one at a time, to the pipe the consumer reads.  A     *)
(* process flushes its buffer before it exits.  Objects put by one process *)
(* keep their order; objects of different processes may arrive in any      *)
(* order.                                                                  *)
(***************************************************************************)
EXTENDS Integers, Sequences, FiniteSets, TLC

\* ---------------------------------------------------------------- bounds
\* the directory call returns at most MaxStations identifiers
MaxStations == 2
\* settings.WORKER_PROCESSES ranges over 1..MaxWorkerProcesses
MaxWorkerProcesses == 2
\* settings.MAX_REQUEST ranges over 1..MaxRequest
MaxRequest == 2
\* settings.RETRY_COUNT ranges over 0..MaxRetry
MaxRetry == 1
\* getStationMetadataMultiple returns at most MaxReturned records
MaxReturned == 2
\* grouper is applied to lists of at most MaxLen items ...
MaxLen == 4
\* ... and to piece lengths 1..MaxPiece
MaxPiece == 3

\* station triplets the remote service knows
Ids == {"a", "b"}

\* ------------------------------------------------------ global constants
None == "None"

\* a list of required fields that forgets the last one
RequiredWithoutLongitude == <<"elevation", "latitude">>

REQUIRED_FIELDS == <<"elevation", "latitude", "longitude">>

FIELDS ==
    << "actonId", "beginDate", "countyName", "endDate", "fipsCountryCd",
       "fipsCountyCd", "fipsStateNumber", "huc", "name", "shefId",
       "stationDataTimeZone", "stationTimeZone", "stationTriplet",
       "elevation", "latitude", "longitude" >>

FieldNames == {FIELDS[i] : i \in 1..Len(FIELDS)}

\* FIELDS[12] in Python, whose indices start at 0
STATION_ID_FIELD == FIELDS[13]

QUEUE_DONE == "DONE"
MESSAGE_CODE == "MSG"

\* ---------------------------------------------------------- Python lists
\* list.remove(x): the list without the first item equal to x
RECURSIVE ListRemove(_, _)
ListRemove(list, x) ==
    IF list = <<>> THEN <<>>
    ELSE IF Head(list) = x THEN Tail(list)
    ELSE <<Head(list)>> \o ListRemove(Tail(list), x)

Contains(list, x) == \E i \in 1..Len(list) : list[i] = x

\* ---------------------------------------------------------------- grouper
\* zip_longest(*[iter(iterable)] * n, fillvalue): n items of the one iterator
\* per piece, the last piece filled up to length n
RECURSIVE zip_longest(_, _, _)
zip_longest(iterable, n, fillvalue) ==
    IF iterable = <<>> THEN <<>>
    ELSE LET piece == [i \in 1..n |-> IF i <= Len(iterable) THEN iterable[i]
                                      ELSE fillvalue]
             rest  == IF Len(iterable) <= n THEN <<>>
                      ELSE SubSeq(iterable, n + 1, Len(iterable))
         IN  <<piece>> \o zip_longest(rest, n, fillvalue)

\* the index of the piece grouper strips the fill values from:
\* len(pieces)-1 in Python, the last piece
LastIndex(pieces) == Len(pieces)

\* grouper(iterable, n) with the default fillvalue None.  pieces[len(pieces)-1]
\* of an empty list is pieces[-1]: Python raises IndexError.
grouper(iterable, n) ==
    LET pieces == zip_longest(iterable, n, None)
    IN  IF Len(pieces) = 0
        THEN [raised |-> TRUE, pieces |-> <<>>]
        ELSE [raised |-> FALSE,
              pieces |-> [pieces EXCEPT ![LastIndex(pieces)] =
                              SelectSeq(@, LAMBDA x : x # None)]]

\* -------------------------------------------------- validate_station_data
\* station[name] raises KeyError exactly when the dict has no such key
HasKey(station, name) == name \in DOMAIN station

\* a second loop that passes over the station id field
FilledButStationId == FieldNames \ {STATION_ID_FIELD}

\* the keys the second loop of validate_station_data fills in
FilledFields == FieldNames

\* The result is False (ok = FALSE) or the station dict (ok = TRUE).
validate_station_data(station) ==
    IF \E i \in 1..Len(REQUIRED_FIELDS) : ~HasKey(station, REQUIRED_FIELDS[i])
    THEN [ok |-> FALSE, station |-> <<>>]
    ELSE [ok |-> TRUE,
          station |-> [k \in DOMAIN station \cup FilledFields |->
                          IF HasKey(station, k) THEN station[k] ELSE None]]

\* ------------------------------------------------------------------ state
VARIABLES
    \* settings.py: WORKER_PROCESSES, MAX_REQUEST, RETRY_COUNT
    settings,
    \* the list getStations returned, and its length
    directory, numberofstations,
    \* get_network_stations: its copy of the list, the rows inserted, the
    \* counter, and where it stands
    stationIDs, sink, countInserted, consumer,
    \* the get_stations process
    gs,
    \* the worker processes, one per station group
    wk,
    \* queueLock: 0 when free, else the worker holding it
    queueLock,
    \* stationQueue: each process's buffer, every object written to the pipe
    \* so far, and how many of them the consumer has read
    buffer, piped, nRead,
    \* history: every object each worker has put, in order
    emitted,
    \* the arguments of grouper and what the call did
    iterable, n, pieces,
    \* the argument of validate_station_data and what the call did
    station, validated,
    \* main: where it stands and its locals, every call of
    \* get_network_stations it has made, and the lines of the summary log
    main, tried, summary

pipeVars == <<settings, directory, numberofstations, stationIDs, sink,
              countInserted, consumer, gs, wk, queueLock, buffer, piped,
              nRead, emitted>>
grouperVars == <<iterable, n, pieces>>
validateVars == <<station, validated>>
mainVars == <<main, tried, summary>>
vars == <<pipeVars, grouperVars, validateVars, mainVars>>

\* process 0 is get_stations, process w >= 1 the worker of the w-th group
GS == 0
Workers == 1..MaxStations
Processes == {GS} \cup Workers

\* --------------------------------------------------------------- messages
\* what goes through the queue: a station dict (kind "station", its
\* stationTriplet in ids), a tuple (MESSAGE_CODE, 15, text) (kind = the text:
\* "error", "traceback", "retrying", "failed", the last with the list it
\* prints in ids), or QUEUE_DONE
StationMsg(w, triplet) == [kind |-> "station", by |-> w, ids |-> <<triplet>>]
ErrorMsg(w) == [kind |-> "error", by |-> w, ids |-> <<>>]
TracebackMsg(w) == [kind |-> "traceback", by |-> w, ids |-> <<>>]
RetryingMsg(w) == [kind |-> "retrying", by |-> w, ids |-> <<>>]
FailedMsg(w, stations) == [kind |-> "failed", by |-> w, ids |-> stations]
DoneMsg == [kind |-> QUEUE_DONE, by |-> GS, ids |-> <<>>]

IsMessage(m) == m.kind \in {"error", "traceback", "retrying", "failed"}

\* ------------------------------------------------------ the remote service
\* a record as suds returns it: its triplet and the fields it lacks
SudsStations == [stationTriplet : Ids, lacks : {{}, {"latitude"}}]

\* recursive_asdict: the suds object as a dict
recursive_asdict(d) ==
    [k \in FieldNames \ d.lacks |->
        IF k = STATION_ID_FIELD THEN d.stationTriplet ELSE "v"]

\* a test that always takes the batched request
NeverSingle(stations) == FALSE

\* line 203: len(stations) == 1
UsesSingle(stations) == Len(stations) = 1

\* lines 203-206: the request the worker makes for its list
Method(stations) ==
    IF UsesSingle(stations) THEN "getStationMetadata"
    ELSE "getStationMetadataMultiple"

\* what a metadata call can do: raise, or return records.  getStationMetadata
\* returns one record, getStationMetadataMultiple a list of them.
RemoteReplies(stations) ==
    {[raised |-> TRUE, data |-> <<>>]}
    \cup {[raised |-> FALSE, data |-> d] :
            d \in IF Method(stations) = "getStationMetadata"
                  THEN [1..1 -> SudsStations]
                  ELSE UNION {[1..k -> SudsStations] : k \in 0..MaxReturned}}

\* ------------------------------------------------------------------- Init
\* attempts is history: one record per remote call, see Attempt
IdleWorker ==
    [pc |-> "unstarted", stations |-> <<>>, recursiveCall |-> 0,
     data |-> <<>>, calls |-> 0, raised |-> 0, crashed |-> FALSE,
     attempts |-> <<>>]

\* the settings explored: workers run in parallel or they retry
Settings ==
    {s \in [WORKER_PROCESSES : 1..MaxWorkerProcesses,
            MAX_REQUEST : 1..MaxRequest,
            RETRY_COUNT : 0..MaxRetry] :
        s.WORKER_PROCESSES = 1 \/ s.RETRY_COUNT = 0}

IdleGetStations ==
    [pc |-> "grouper", groups |-> <<>>, g |-> 1, processes |-> <<>>, i |-> 1]

\* lines 362-411: get_network_stations up to its consumer loop, for any list
\* getStations may return
Directories == UNION {[1..k -> Ids] : k \in 0..MaxStations}

\* the variables of one call of get_network_stations hold the fields of p
PipeIs(p) ==
    /\ directory = p.directory
    /\ numberofstations = p.numberofstations
    /\ stationIDs = p.stationIDs
    /\ sink = p.sink
    /\ countInserted = p.countInserted
    /\ consumer = p.consumer
    /\ gs = p.gs
    /\ wk = p.wk
    /\ queueLock = p.queueLock
    /\ buffer = p.buffer
    /\ piped = p.piped
    /\ nRead = p.nRead
    /\ emitted = p.emitted

\* and are set to them
PipeBecomes(p) ==
    /\ directory' = p.directory
    /\ numberofstations' = p.numberofstations
    /\ stationIDs' = p.stationIDs
    /\ sink' = p.sink
    /\ countInserted' = p.countInserted
    /\ consumer' = p.consumer
    /\ gs' = p.gs
    /\ wk' = p.wk
    /\ queueLock' = p.queueLock
    /\ buffer' = p.buffer
    /\ piped' = p.piped
    /\ nRead' = p.nRead
    /\ emitted' = p.emitted

\* lines 362-411: get_network_stations as it enters its consumer loop, with
\* the list getStations returned
GetNetworkStations(stations) ==
    [directory |-> stations, numberofstations |-> Len(stations),
     stationIDs |-> stations, sink |-> <<>>, countInserted |-> 0,
     consumer |-> "loop", gs |-> IdleGetStations,
     wk |-> [w \in Workers |-> IdleWorker], queueLock |-> 0,
     buffer |-> [p \in Processes |-> <<>>], piped |-> <<>>, nRead |-> 0,
     emitted |-> [w \in Workers |-> <<>>]]

InitPipe ==
    /\ settings \in Settings
    /\ \E stations \in Directories : PipeIs(GetNetworkStations(stations))

\* grouper and validate_station_data not called on their own
NotCalled == [called |-> FALSE]
NoGrouper == iterable = <<>> /\ n = 1 /\ pieces = NotCalled
NoValidate == station = <<>> /\ validated = NotCalled

\* the processes of calls of get_network_stations that raised: how many
\* get_stations processes and how many workers are still alive
NoProcess == [get_stations |-> 0, workers |-> 0]

\* main not running: get_network_stations on its own
NoMain ==
    /\ main = [pc |-> "off", i |-> 1, try_count |-> 0, fc |-> None,
               projectedfc |-> None, source_path |-> None,
               archiveerror |-> 0, copyerror |-> 0,
               wfsupdatelist |-> <<>>, templocation |-> "kept",
               result |-> None, leftover |-> NoProcess]
    /\ tried = <<>>
    /\ summary = <<>>

Init == InitPipe /\ NoGrouper /\ NoValidate /\ NoMain

\* ------------------------------------------------------------ get_stations
IsAlive(w) == wk[w].pc \notin {"unstarted", "dead"}

\* a test that lets one process too many start
AboveMaxProcesses(count) == count = settings.WORKER_PROCESSES + 1

\* line 293: while len(processes) == settings.WORKER_PROCESSES
AtMaxProcesses(count) == count = settings.WORKER_PROCESSES

\* line 281: grouper(stationIDs, settings.MAX_REQUEST); an IndexError ends
\* the process
GS_Grouper ==
    /\ gs.pc = "grouper"
    /\ LET r == grouper(directory, settings.MAX_REQUEST)
       IN  gs' = IF r.raised THEN [gs EXCEPT !.pc = "crashed"]
                 ELSE [gs EXCEPT !.pc = "for", !.groups = r.pieces, !.g = 1]
    /\ UNCHANGED <<settings, directory, numberofstations, stationIDs, sink,
                   countInserted, consumer, wk, queueLock, buffer, piped,
                   nRead, emitted, grouperVars, validateVars, mainVars>>

\* lines 283-290: start the worker of the next group and append it
GS_Start ==
    /\ gs.pc = "for"
    /\ gs.g <= Len(gs.groups)
    /\ wk' = [wk EXCEPT ![gs.g] =
                 [IdleWorker EXCEPT !.pc = "call",
                                    !.stations = gs.groups[gs.g],
                                    !.recursiveCall = settings.RETRY_COUNT]]
    /\ gs' = [gs EXCEPT !.processes = Append(@, gs.g), !.pc = "while"]
    /\ UNCHANGED <<settings, directory, numberofstations, stationIDs, sink,
                   countInserted, consumer, queueLock, buffer, piped, nRead,
                   emitted, grouperVars, validateVars, mainVars>>

\* line 293: the test of the while loop
GS_While ==
    /\ gs.pc = "while"
    /\ gs' = IF AtMaxProcesses(Len(gs.processes))
             THEN [gs EXCEPT !.pc = "poll", !.i = 1]
             ELSE [gs EXCEPT !.pc = "for", !.g = @ + 1]
    /\ UNCHANGED <<settings, directory, numberofstations, stationIDs, sink,
                   countInserted, consumer, wk, queueLock, buffer, piped,
                   nRead, emitted, grouperVars, validateVars, mainVars>>

\* lines 294-297: one round of "for p in processes"; the list iterator
\* moves to the next index whether or not p was removed
GS_Poll ==
    /\ gs.pc = "poll"
    /\ gs.i <= Len(gs.processes)
    /\ LET p == gs.processes[gs.i]
       IN  gs' = IF ~IsAlive(p)
                 THEN [gs EXCEPT !.processes = ListRemove(@, p), !.i = @ + 1]
                 ELSE [gs EXCEPT !.i = @ + 1]
    /\ UNCHANGED <<settings, directory, numberofstations, stationIDs, sink,
                   countInserted, consumer, wk, queueLock, buffer, piped,
                   nRead, emitted, grouperVars, validateVars, mainVars>>

\* line 298: the for loop is over; sleep, then test the while again
GS_Sleep ==
    /\ gs.pc = "poll"
    /\ gs.i > Len(gs.processes)
    /\ gs' = [gs EXCEPT !.pc = "while"]
    /\ UNCHANGED <<settings, directory, numberofstations, stationIDs, sink,
                   countInserted, consumer, wk, queueLock, buffer, piped,
                   nRead, emitted, grouperVars, validateVars, mainVars>>

\* line 281: no group is left
GS_AllStarted ==
    /\ gs.pc = "for"
    /\ gs.g > Len(gs.groups)
    /\ gs' = [gs EXCEPT !.pc = "join", !.i = 1]
    /\ UNCHANGED <<settings, directory, numberofstations, stationIDs, sink,
                   countInserted, consumer, wk, queueLock, buffer, piped,
                   nRead, emitted, grouperVars, validateVars, mainVars>>

\* whether get_stations may go on past p.join()
Joined(p) == ~IsAlive(p)

\* lines 302-303: p.join() returns once p has ended
GS_Join ==
    /\ gs.pc = "join"
    /\ gs.i <= Len(gs.processes)
    /\ Joined(gs.processes[gs.i])
    /\ gs' = [gs EXCEPT !.i = @ + 1]
    /\ UNCHANGED <<settings, directory, numberofstations, stationIDs, sink,
                   countInserted, consumer, wk, queueLock, buffer, piped,
                   nRead, emitted, grouperVars, validateVars, mainVars>>

\* line 305: stationQueue.put(QUEUE_DONE)
GS_PutDone ==
    /\ gs.pc = "join"
    /\ gs.i > Len(gs.processes)
    /\ buffer' = [buffer EXCEPT ![GS] = Append(@, DoneMsg)]
    /\ gs' = [gs EXCEPT !.pc = "exit"]
    /\ UNCHANGED <<settings, directory, numberofstations, stationIDs, sink,
                   countInserted, consumer, wk, queueLock, piped, nRead,
                   emitted, grouperVars, validateVars, mainVars>>

\* the process ends once its buffer is flushed
GS_Exit ==
    /\ gs.pc = "exit"
    /\ buffer[GS] = <<>>
    /\ gs' = [gs EXCEPT !.pc = "done"]
    /\ UNCHANGED <<settings, directory, numberofstations, stationIDs, sink,
                   countInserted, consumer, wk, queueLock, buffer, piped,
                   nRead, emitted, grouperVars, validateVars, mainVars>>

\* ---------------------------------------------- get_multiple_stations_thread
\* A worker shares only queueLock and the pipe with the other processes: its
\* lists, its retry count and its queue buffer are its own.  So a step below
\* is one statement that takes the lock together with the local statements
\* around it.

\* outQueue.put(message) by worker w
PutBy(w, message) ==
    /\ buffer' = [buffer EXCEPT ![w] = Append(@, message)]
    /\ emitted' = [emitted EXCEPT ![w] = Append(@, message)]

\* what is remembered of one call of get_multiple_stations_thread: the list
\* and the retry count it was called with, the request it made and whether
\* that raised, how many objects the worker had put before it, the
\* triplets of the records that failed validation, whether it has reached
\* line 236 and the list it was left with there
Attempt(w, reply) ==
    [stations |-> wk[w].stations, recursiveCall |-> wk[w].recursiveCall,
     method |-> Method(wk[w].stations), raised |-> reply.raised,
     first |-> Len(emitted[w]), invalid |-> {}, over |-> FALSE, left |-> <<>>]

\* the record of the call in progress
Current(worker) == Len(worker.attempts)

\* a raise that leaves the records of an earlier reply in data
StaleData == <<[stationTriplet |-> "a", lacks |-> {}]>>

\* line 199: data = None
NoData == <<>>

\* lines 199-206: data = None, then the remote call
W_Call(w) ==
    /\ wk[w].pc = "call"
    /\ \E reply \in RemoteReplies(wk[w].stations) :
         wk' = [wk EXCEPT ![w] =
                  IF reply.raised
                  THEN [@ EXCEPT !.pc = "except", !.data = NoData,
                                 !.calls = @ + 1, !.raised = @ + 1,
                                 !.attempts = Append(@, Attempt(w, reply))]
                  ELSE [@ EXCEPT !.pc = "data", !.data = reply.data,
                                 !.calls = @ + 1,
                                 !.attempts = Append(@, Attempt(w, reply))]]
    /\ UNCHANGED <<queueLock, buffer, emitted>>
    /\ UNCHANGED <<settings, directory, numberofstations, stationIDs, sink,
                   countInserted, consumer, gs, piped, nRead, grouperVars,
                   validateVars, mainVars>>

\* lines 207-209: the exception is caught (URLError is an Exception: the
\* first handler takes it); the lock is taken and the exception put
W_Except(w) ==
    /\ wk[w].pc = "except"
    /\ queueLock = 0
    /\ queueLock' = w
    /\ PutBy(w, ErrorMsg(w))
    /\ wk' = [wk EXCEPT ![w].pc = "traceback"]
    /\ UNCHANGED <<settings, directory, numberofstations, stationIDs, sink,
                   countInserted, consumer, gs, piped, nRead, grouperVars,
                   validateVars, mainVars>>

\* line 210: the traceback is put and the lock released; data is still None
W_Traceback(w) ==
    /\ wk[w].pc = "traceback"
    /\ queueLock = w
    /\ queueLock' = 0
    /\ PutBy(w, TracebackMsg(w))
    /\ wk' = [wk EXCEPT ![w].pc = "data"]
    /\ UNCHANGED <<settings, directory, numberofstations, stationIDs, sink,
                   countInserted, consumer, gs, piped, nRead, grouperVars,
                   validateVars, mainVars>>

\* a worker that gives up the identifier of a record it rejects
DropInvalid(stations, triplet) == ListRemove(stations, triplet)

\* lines 233-234: else: pass
AfterInvalid(stations, triplet) == stations

\* lines 226-234: the next station of data.  A valid one is put under the
\* lock and then removed from stations; the ValueError of a triplet that is
\* not in the list is caught nowhere and ends the process.
W_Station(w) ==
    /\ wk[w].pc = "data"
    /\ wk[w].data # <<>>
    /\ LET valid == validate_station_data(recursive_asdict(Head(wk[w].data)))
       IN  IF valid.ok
           THEN LET triplet == valid.station[STATION_ID_FIELD]
                IN  /\ queueLock = 0
                    /\ PutBy(w, StationMsg(w, triplet))
                    /\ wk' = [wk EXCEPT ![w] =
                                IF Contains(wk[w].stations, triplet)
                                THEN [@ EXCEPT !.stations = ListRemove(@, triplet),
                                               !.data = Tail(@)]
                                ELSE [@ EXCEPT !.crashed = TRUE, !.pc = "exit"]]
           ELSE /\ wk' = [wk EXCEPT
                           ![w].stations =
                               AfterInvalid(@, Head(wk[w].data).stationTriplet),
                           ![w].data = Tail(@),
                           ![w].attempts[Current(wk[w])].invalid =
                               @ \cup {Head(wk[w].data).stationTriplet}]
                /\ UNCHANGED <<buffer, emitted>>
    /\ UNCHANGED queueLock
    /\ UNCHANGED <<settings, directory, numberofstations, stationIDs, sink,
                   countInserted, consumer, gs, piped, nRead, grouperVars,
                   validateVars, mainVars>>

\* a retry decided by the count alone
RetryWhileCounted(stations, recursiveCall) == recursiveCall # 0

\* line 236: len(stations) and recursiveCall
ShouldRetry(stations, recursiveCall) == Len(stations) # 0 /\ recursiveCall # 0

\* a retry that does not count down
NoDecrement(recursiveCall) == recursiveCall

\* line 243: recursiveCall -= 1
Decrement(recursiveCall) == recursiveCall - 1

\* a retry that asks for the whole list but its first element
RetryWithoutFirst(stations) == Tail(stations)

\* line 245: the list the recursive call is given
RetryWith(stations) == stations

\* a last message that leaves out the first of the list
NotRetrievedButFirst(stations) == Tail(stations)

\* line 255: the list the last message prints
NotRetrieved(stations) == stations

\* line 236, reached when "for station in data" is over or data is empty or None
AfterData(w) == wk[w].pc = "data" /\ wk[w].data = <<>>

\* lines 236-249: the "retrying" message, then the recursive call with the
\* same list and one retry less; every frame returns when the innermost does
W_Retry(w) ==
    /\ AfterData(w)
    /\ ShouldRetry(wk[w].stations, wk[w].recursiveCall)
    /\ queueLock = 0
    /\ PutBy(w, RetryingMsg(w))
    /\ wk' = [wk EXCEPT ![w].recursiveCall = Decrement(@),
                          ![w].stations = RetryWith(@),
                          ![w].attempts[Current(wk[w])] =
                              [@ EXCEPT !.over = TRUE, !.left = wk[w].stations],
                          ![w].pc = "call"]
    /\ UNCHANGED queueLock
    /\ UNCHANGED <<settings, directory, numberofstations, stationIDs, sink,
                   countInserted, consumer, gs, piped, nRead, grouperVars,
                   validateVars, mainVars>>

\* lines 250-258: no retry is left: the stations left are reported
W_Failed(w) ==
    /\ AfterData(w)
    /\ ~ShouldRetry(wk[w].stations, wk[w].recursiveCall)
    /\ Len(wk[w].stations) # 0
    /\ queueLock = 0
    /\ PutBy(w, FailedMsg(w, NotRetrieved(wk[w].stations)))
    /\ wk' = [wk EXCEPT ![w].pc = "exit",
                          ![w].attempts[Current(wk[w])] =
                              [@ EXCEPT !.over = TRUE, !.left = wk[w].stations]]
    /\ UNCHANGED queueLock
    /\ UNCHANGED <<settings, directory, numberofstations, stationIDs, sink,
                   countInserted, consumer, gs, piped, nRead, grouperVars,
                   validateVars, mainVars>>

\* line 258: every station was retrieved
W_Return(w) ==
    /\ AfterData(w)
    /\ Len(wk[w].stations) = 0
    /\ wk' = [wk EXCEPT ![w].pc = "exit",
                          ![w].attempts[Current(wk[w])] =
                              [@ EXCEPT !.over = TRUE, !.left = wk[w].stations]]
    /\ UNCHANGED <<queueLock, buffer, emitted>>
    /\ UNCHANGED <<settings, directory, numberofstations, stationIDs, sink,
                   countInserted, consumer, gs, piped, nRead, grouperVars,
                   validateVars, mainVars>>

\* the process ends (return 0, or the uncaught exception) once its buffer
\* is flushed
W_Exit(w) ==
    /\ wk[w].pc = "exit"
    /\ buffer[w] = <<>>
    /\ wk' = [wk EXCEPT ![w].pc = "dead"]
    /\ UNCHANGED <<queueLock, buffer, emitted>>
    /\ UNCHANGED <<settings, directory, numberofstations, stationIDs, sink,
                   countInserted, consumer, gs, piped, nRead, grouperVars,
                   validateVars, mainVars>>

\* ------------------------------------------------------------ stationQueue
\* the feeder thread of process p writes its oldest buffered object to the pipe
Feed(p) ==
    /\ buffer[p] # <<>>
    /\ piped' = Append(piped, Head(buffer[p]))
    /\ buffer' = [buffer EXCEPT ![p] = Tail(@)]
    /\ UNCHANGED <<settings, directory, numberofstations, stationIDs, sink,
                   countInserted, consumer, gs, wk, queueLock, nRead, emitted,
                   grouperVars, validateVars, mainVars>>

\* ---------------------------------- the consumer loop of get_network_stations
\* line 418: stationQueue.get() blocks until the pipe holds an object
Waiting == consumer = "loop" /\ nRead < Len(piped)
Got == piped[nRead + 1]

\* a test that only notices too many records
MoreThanTotal(count, total) == count > total

\* line 460: countInserted != numberofstations
Incomplete(count, total) == count # total

\* lines 420-421 and 454-463: QUEUE_DONE ends the loop; then the count decides
ConsumeDone ==
    /\ Waiting
    /\ Got.kind = QUEUE_DONE
    /\ nRead' = nRead + 1
    /\ consumer' = IF Incomplete(countInserted, numberofstations)
                   THEN "raised" ELSE "returned"
    /\ UNCHANGED <<settings, directory, numberofstations, stationIDs, sink,
                   countInserted, gs, wk, queueLock, buffer, piped, emitted,
                   grouperVars, validateVars, mainVars>>

\* lines 423-426: a message is logged
ConsumeMessage ==
    /\ Waiting
    /\ IsMessage(Got)
    /\ nRead' = nRead + 1
    /\ UNCHANGED <<settings, directory, numberofstations, stationIDs, sink,
                   countInserted, consumer, gs, wk, queueLock, buffer, piped,
                   emitted, grouperVars, validateVars, mainVars>>

\* a counter that misses the row
CountUnchanged(count) == count

\* line 452: countInserted += 1
CountAfterInsert(count) == count + 1

\* a removal that passes over a triplet the list does not hold
AnyTriplet(list, triplet) == TRUE

\* line 430: list.remove raises ValueError unless the list holds the triplet
Known(list, triplet) == Contains(list, triplet)

\* line 432: cursor.insertRow either appends the row or raises
InsertRowOutcomes == {"inserted", "raised"}

\* lines 430-452: a station is removed from stationIDs and inserted; the
\* ValueError of a triplet that is not in stationIDs leaves the function, and
\* so does an exception of insertRow
ConsumeStation ==
    /\ Waiting
    /\ Got.kind = "station"
    /\ nRead' = nRead + 1
    /\ LET triplet == Got.ids[1]
       IN  IF Known(stationIDs, triplet)
           THEN /\ stationIDs' = ListRemove(stationIDs, triplet)
                /\ \E insertRow \in InsertRowOutcomes :
                     IF insertRow = "inserted"
                     THEN /\ sink' = Append(sink, triplet)
                          /\ countInserted' = CountAfterInsert(countInserted)
                          /\ consumer' = consumer
                     ELSE /\ consumer' = "insertRow raised"
                          /\ UNCHANGED <<sink, countInserted>>
           ELSE /\ consumer' = "ValueError"
                /\ UNCHANGED <<stationIDs, sink, countInserted>>
    /\ UNCHANGED <<settings, directory, numberofstations, gs, wk, queueLock,
                   buffer, piped, emitted, grouperVars, validateVars, mainVars>>

\* ------------------------------------------------------------------- Spec
Next ==
    \/ GS_Grouper \/ GS_Start \/ GS_While \/ GS_Poll \/ GS_Sleep
    \/ GS_AllStarted \/ GS_Join \/ GS_PutDone \/ GS_Exit
    \/ \E w \in Workers :
         \/ W_Call(w) \/ W_Except(w) \/ W_Traceback(w) \/ W_Station(w)
         \/ W_Retry(w) \/ W_Failed(w) \/ W_Return(w) \/ W_Exit(w)
    \/ \E p \in Processes : Feed(p)
    \/ ConsumeDone \/ ConsumeMessage \/ ConsumeStation

Spec == Init /\ [][Next]_vars

\* Every process keeps running: a remote call returns or raises, a feeder
\* thread goes on writing, the consumer goes on reading.
GetStationsStep ==
    \/ GS_Grouper \/ GS_Start \/ GS_While \/ GS_Poll \/ GS_Sleep
    \/ GS_AllStarted \/ GS_Join \/ GS_PutDone \/ GS_Exit

WorkerStep(w) ==
    \/ W_Call(w) \/ W_Except(w) \/ W_Traceback(w) \/ W_Station(w)
    \/ W_Retry(w) \/ W_Failed(w) \/ W_Return(w) \/ W_Exit(w)

ConsumerStep == ConsumeDone \/ ConsumeMessage \/ ConsumeStation

Fairness ==
    /\ WF_vars(GetStationsStep)
    /\ \A w \in Workers : WF_vars(WorkerStep(w))
    /\ \A p \in Processes : WF_vars(Feed(p))
    /\ WF_vars(ConsumerStep)

FairSpec == Spec /\ Fairness

\* ---------------------------------------------------- the helpers on their own
\* the pipeline at rest
AtRest ==
    [GetNetworkStations(<<>>) EXCEPT
        !.consumer = "off", !.gs = [IdleGetStations EXCEPT !.pc = "off"]]

PipeAtRest == PipeIs(AtRest)

NoPipe ==
    /\ settings = [WORKER_PROCESSES |-> 1, MAX_REQUEST |-> 1, RETRY_COUNT |-> 0]
    /\ PipeAtRest

\* grouper(iterable, n) for every list of at most MaxLen triplets and every
\* n in 1..MaxPiece
InitGrouper ==
    /\ NoPipe /\ NoValidate /\ NoMain
    /\ iterable \in UNION {[1..k -> Ids] : k \in 0..MaxLen}
    /\ n \in 1..MaxPiece
    /\ pieces = NotCalled

CallGrouper ==
    /\ ~pieces.called
    /\ pieces' = [called |-> TRUE, result |-> grouper(iterable, n)]
    /\ UNCHANGED <<pipeVars, iterable, n, validateVars, mainVars>>

SpecGrouper == InitGrouper /\ [][CallGrouper]_vars

\* validate_station_data(station) for every dict whose keys are field names;
\* each key present holds a value of its own
InitValidate ==
    /\ NoPipe /\ NoGrouper /\ NoMain
    /\ station \in {[k \in present |-> <<"value of", k>>] : present \in SUBSET FieldNames}
    /\ validated = NotCalled

CallValidate ==
    /\ ~validated.called
    /\ validated' = [called |-> TRUE, result |-> validate_station_data(station)]
    /\ UNCHANGED <<pipeVars, grouperVars, station, mainVars>>

SpecValidate == InitValidate /\ [][CallValidate]_vars

\* ------------------------------------------------------------------- main
\* how many of the networks a run goes through
MaxNetworks == 2

\* lines 45-46
AllNetworks ==
    <<"SNTL", "SNOW", "USGS", "COOP", "SCAN", "SNTLT", "OTHER", "BOR",
      "MPRC", "MSNT">>
NETWORKS == SubSeq(AllNetworks, 1, MaxNetworks)

\* the network of the iteration main is in
Network == NETWORKS[main.i]

\* line 854: fc_name = "stations_" + network, for the network at each index
FcNames ==
    <<"stations_SNTL", "stations_SNOW", "stations_USGS", "stations_COOP",
      "stations_SCAN", "stations_SNTLT", "stations_OTHER", "stations_BOR",
      "stations_MPRC", "stations_MSNT">>
fc_name == FcNames[main.i]

\* write_to_summary_log("<now>: <of> <line>")
SummaryLine(of, line) == [of |-> of, line |-> line]

\* how many stations a network has in a run of main
MaxNetworkStations == 1

\* the settings main is run with: one station for each worker
MainSettings == {s \in Settings : s.MAX_REQUEST = 1}

\* the lists getStations returns in a run of main: the stations of a network
\* are named alike, up to the names the service answers with
NetworkDirectories == UNION {[1..k -> {"a"}] : k \in 0..MaxNetworkStations}

\* lines 847-849, with the temp workspace made
InitMain ==
    /\ settings \in MainSettings
    /\ PipeAtRest /\ NoGrouper /\ NoValidate
    /\ main = [pc |-> "for", i |-> 1, try_count |-> 0, fc |-> None,
               projectedfc |-> None, source_path |-> None,
               archiveerror |-> 0, copyerror |-> 0,
               wfsupdatelist |-> <<>>, templocation |-> "kept",
               result |-> None, leftover |-> NoProcess]
    /\ tried = <<>>
    /\ summary = <<>>

\* lines 852-857: the next network, if there is one
M_For ==
    /\ main.pc = "for"
    /\ main' = IF main.i <= Len(NETWORKS)
               THEN [main EXCEPT !.fc = None, !.try_count = 0,
                                 !.archiveerror = @ + 1, !.copyerror = @ + 1,
                                 !.pc = "while"]
               ELSE [main EXCEPT !.pc = "update"]
    /\ UNCHANGED <<pipeVars, grouperVars, validateVars, tried, summary>>

\* a loop that tries once more than it should
TryOnceMore(try_count) == try_count <= settings.RETRY_COUNT + 1

\* line 859: while try_count <= settings.RETRY_COUNT
TryAgain(try_count) == try_count <= settings.RETRY_COUNT

\* what a call of get_network_stations came to: "returned", or how it raised
Tried(outcome) == [network |-> Network, outcome |-> outcome]

\* lines 859-862 and 362: one more try; getStations raises or returns a list,
\* and with a list get_network_stations starts get_stations and its loop
M_Call ==
    /\ main.pc = "while"
    /\ TryAgain(main.try_count)
    /\ \/ /\ main' = [main EXCEPT !.try_count = @ + 1]
          /\ tried' = Append(tried, Tried("getStations raised"))
          /\ UNCHANGED pipeVars
       \/ /\ main' = [main EXCEPT !.try_count = @ + 1,
                                  !.pc = "get_network_stations"]
          /\ \E stations \in NetworkDirectories :
                PipeBecomes(GetNetworkStations(stations))
          /\ UNCHANGED <<settings, tried>>
    /\ UNCHANGED <<grouperVars, validateVars, summary>>

\* the ways get_network_stations raises once its loop runs: line 461, the
\* ValueError of line 430, an exception of insertRow
Raised == {"raised", "ValueError", "insertRow raised"}

\* a get_network_stations that also returns after an insertRow exception
ReturnsAlsoInsertRowRaised == {"returned", "insertRow raised"}

\* line 463: return fc, reached only past the test of line 460
Returns == {"returned"}

\* lines 862 and 867-868: get_network_stations returned: fc is set, break
M_Returned ==
    /\ main.pc = "get_network_stations"
    /\ consumer \in Returns
    /\ main' = [main EXCEPT !.fc = fc_name, !.pc = "if fc"]
    /\ tried' = Append(tried, Tried("returned"))
    /\ PipeBecomes(AtRest)
    /\ UNCHANGED <<settings, grouperVars, validateVars, summary>>

\* lines 374-377 and 416-461: an exception leaves get_network_stations with
\* getStationProcess and its workers as they are: nothing joins or terminates
\* them, so those that are alive stay alive next to the ones counted before
Abandoned(leftover) ==
    [get_stations |-> leftover.get_stations
                        + (IF gs.pc \in {"done", "crashed"} THEN 0 ELSE 1),
     workers |-> leftover.workers + Cardinality({w \in Workers : IsAlive(w)})]

\* lines 863-866: get_network_stations raised: fc is as it was; log and loop
M_Except ==
    /\ main.pc = "get_network_stations"
    /\ consumer \in Raised
    /\ main' = [main EXCEPT !.pc = "while", !.leftover = Abandoned(@)]
    /\ tried' = Append(tried, Tried(consumer))
    /\ PipeBecomes(AtRest)
    /\ UNCHANGED <<settings, grouperVars, validateVars, summary>>

\* line 859: no try is left
M_GiveUp ==
    /\ main.pc = "while"
    /\ ~TryAgain(main.try_count)
    /\ main' = [main EXCEPT !.pc = "if fc"]
    /\ UNCHANGED <<pipeVars, grouperVars, validateVars, tried, summary>>

\* a test that takes every network for retrieved
AlwaysRetrieved(fc) == TRUE

\* line 870: if fc
Retrieved(fc) == fc # None

\* a failure that ends the loop over the networks
LeaveLoop(i) == Len(NETWORKS) + 1

\* lines 875 and 895: continue, and the end of the loop body: the next network
NextNetwork(i) == i + 1

\* lines 870-875: with no fc the network is logged as failed and skipped
M_IfFc ==
    /\ main.pc = "if fc"
    /\ IF Retrieved(main.fc)
       THEN /\ main' = [main EXCEPT !.pc = "project"]
            /\ UNCHANGED summary
       ELSE /\ summary' = Append(summary, SummaryLine(fc_name, "processing FAILED"))
            /\ main' = [main EXCEPT !.i = NextNetwork(@), !.pc = "for"]
    /\ UNCHANGED <<pipeVars, grouperVars, validateVars, tried>>

\* what a call into arcpy can do
Outcomes == {"done", "raised"}

\* lines 888-903: Project_management; if it raises the network is logged as
\* failed and skipped, else projectedfc is assigned and the network logged
\* as processed OK
M_Project ==
    /\ main.pc = "project"
    /\ \E Project_management \in Outcomes :
         IF Project_management = "raised"
         THEN /\ summary' = Append(summary, SummaryLine(fc_name, "processing FAILED"))
              /\ main' = [main EXCEPT !.i = NextNetwork(@), !.pc = "for"]
         ELSE /\ summary' = Append(summary, SummaryLine(fc_name, "processed OK"))
              /\ main' = [main EXCEPT !.projectedfc = fc_name, !.pc = "save"]
    /\ UNCHANGED <<pipeVars, grouperVars, validateVars, tried>>

\* lines 905-915: save_FC; source_path is assigned only if it returns
M_Save ==
    /\ main.pc = "save"
    /\ \E save_FC \in Outcomes :
         IF save_FC = "raised"
         THEN /\ main' = [main EXCEPT !.pc = "copy"]
              /\ UNCHANGED summary
         ELSE /\ summary' = Append(summary, SummaryLine(fc_name, "saved OK"))
              /\ main' = [main EXCEPT !.source_path = fc_name,
                                      !.archiveerror = @ - 1, !.pc = "copy"]
    /\ UNCHANGED <<pipeVars, grouperVars, validateVars, tried>>

\* lines 917-929: create_active_only_FC(source_path); the UnboundLocalError of
\* a source_path never assigned is caught like any exception of the call.
\* Then the projected fc goes on the update list and the iteration ends.
M_Copy ==
    /\ main.pc = "copy"
    /\ \E create_active_only_FC \in
            IF main.source_path = None THEN {"raised"} ELSE Outcomes :
         IF create_active_only_FC = "raised"
         THEN /\ main' = [main EXCEPT !.wfsupdatelist = Append(@, fc_name),
                                      !.i = NextNetwork(@), !.pc = "for"]
              /\ UNCHANGED summary
         ELSE /\ summary' = Append(summary,
                                   SummaryLine(fc_name, "copied for active"))
              /\ main' = [main EXCEPT !.copyerror = @ - 1,
                                      !.wfsupdatelist = Append(@, fc_name),
                                      !.i = NextNetwork(@), !.pc = "for"]
    /\ UNCHANGED <<pipeVars, grouperVars, validateVars, tried>>

\* lines 937-946: the feature services of the list are updated (an exception
\* of update_feature_services leaves main); with an empty list main returns 300
M_Update ==
    /\ main.pc = "update"
    /\ IF main.wfsupdatelist # <<>>
       THEN \E update_feature_services \in Outcomes :
              main' = IF update_feature_services = "raised"
                      THEN [main EXCEPT !.pc = "raised"]
                      ELSE [main EXCEPT !.pc = "final"]
       ELSE main' = [main EXCEPT !.result = "300", !.pc = "returned"]
    /\ UNCHANGED <<pipeVars, grouperVars, validateVars, tried, summary>>

\* a test that passes over the saves that failed
NothingToReport(archiveerror) == FALSE

\* line 948: if archiveerror
NotArchived(archiveerror) == archiveerror # 0

\* lines 948-969: the last line of the summary; the temp data is removed
\* only when nothing failed; return 0
M_Final ==
    /\ main.pc = "final"
    /\ IF NotArchived(main.archiveerror)
       THEN /\ summary' = Append(summary, SummaryLine(ToString(main.archiveerror),
                                                      "web services FAILED"))
            /\ main' = [main EXCEPT !.result = "0", !.pc = "returned"]
       ELSE IF main.copyerror # 0
       THEN /\ summary' = Append(summary, SummaryLine(ToString(main.archiveerror),
                                                      "web services FAILED"))
            /\ main' = [main EXCEPT !.result = "0", !.pc = "returned"]
       ELSE /\ summary' = Append(summary, SummaryLine("all", "web services updated OK"))
            /\ \E rmtree \in Outcomes :
                 main' = [main EXCEPT !.result = "0", !.pc = "returned",
                                      !.templocation = IF rmtree = "done"
                                                       THEN "removed" ELSE @]
    /\ UNCHANGED <<pipeVars, grouperVars, validateVars, tried>>

\* lines 258 and 300-305: a process left over from a call that raised runs on
\* by itself to its end (its queue has no reader, and its put does not wait
\* for one)
M_LeftoverEnds ==
    /\ \/ /\ main.leftover.workers > 0
          /\ main' = [main EXCEPT !.leftover.workers = @ - 1]
       \/ /\ main.leftover.get_stations > 0
          /\ main.leftover.workers = 0
          /\ main' = [main EXCEPT !.leftover.get_stations = @ - 1]
    /\ UNCHANGED <<pipeVars, grouperVars, validateVars, tried, summary>>

MainStep ==
    \/ M_For \/ M_Call \/ M_Returned \/ M_Except \/ M_GiveUp \/ M_IfFc
    \/ M_Project \/ M_Save \/ M_Copy \/ M_Update \/ M_Final
    \/ M_LeftoverEnds

NextMain == MainStep \/ Next

SpecMain == InitMain /\ [][NextMain]_vars

\* ------------------------------------------------------------------ claims
\* the required fields the claims name
Required == {"elevation", "latitude", "longitude"}

\* ceil(a / b) for b >= 1
CeilDiv(a, b) == (a + b - 1) \div b

RECURSIVE Concat(_)
Concat(lists) == IF lists = <<>> THEN <<>> ELSE Head(lists) \o Concat(Tail(lists))

\* C5: for every list of N >= 0 identifiers and every K >= 1, grouper returns
\* ceil(N/K) chunks whose concatenation is the list, every chunk but the last
\* of length K, and no None in the last chunk.
C5_GrouperChunks ==
    pieces.called =>
        /\ ~pieces.result.raised
        /\ LET chunks == pieces.result.pieces
           IN  /\ Len(chunks) = CeilDiv(Len(iterable), n)
               /\ Concat(chunks) = iterable
               /\ \A i \in 1..(Len(chunks) - 1) : Len(chunks[i]) = n
               /\ Len(chunks) > 0 => ~Contains(chunks[Len(chunks)], None)

\* what C5 says holds of every non-empty list
GrouperChunksOfNonEmpty ==
    (pieces.called /\ iterable # <<>>) =>
        /\ ~pieces.result.raised
        /\ LET chunks == pieces.result.pieces
           IN  /\ Len(chunks) = CeilDiv(Len(iterable), n)
               /\ Concat(chunks) = iterable
               /\ \A i \in 1..(Len(chunks) - 1) : Len(chunks[i]) = n
               /\ ~Contains(chunks[Len(chunks)], None)

\* C6: a raw record with all required fields is returned with every name of
\* FIELDS as a key, holding None where the key was absent and the original
\* value otherwise.
C6_ValidatedHasEveryField ==
    (validated.called /\ Required \subseteq DOMAIN station) =>
        /\ validated.result.ok
        /\ \A k \in FieldNames :
             /\ k \in DOMAIN validated.result.station
             /\ validated.result.station[k] =
                  IF k \in DOMAIN station THEN station[k] ELSE None

C6_Witness ==
    /\ validated.called
    /\ Required \subseteq DOMAIN station
    /\ "name" \notin DOMAIN station
    /\ "huc" \in DOMAIN station
    /\ validated.result.ok
    /\ validated.result.station["name"] = None

\* C7: a raw record that lacks a required field is rejected, whatever
\* optional fields it has.
C7_MissingRequiredRejected ==
    (validated.called /\ ~(Required \subseteq DOMAIN station)) =>
        ~validated.result.ok

C7_Witness ==
    /\ validated.called
    /\ DOMAIN station = FieldNames \ {"longitude"}
    /\ ~validated.result.ok

\* the workers started and not yet ended
Running == {w \in Workers : IsAlive(w)}

\* C1: the number of worker processes started and not yet finished never
\* exceeds WORKER_PROCESSES.
C1_AtMostWorkerProcesses == Cardinality(Running) <= settings.WORKER_PROCESSES

\* get_stations waits at the limit while a group is still to be started
C1_Witness ==
    /\ gs.pc = "poll"
    /\ gs.g < Len(gs.groups)
    /\ Cardinality(Running) = settings.WORKER_PROCESSES

\* the consumer has read QUEUE_DONE
SentinelRead == nRead > 0 /\ piped[nRead].kind = QUEUE_DONE

\* C2: get_network_stations returns only if as many records were written as
\* the directory listed; when the sentinel is read with any other count it
\* raises.
C2_ReturnsOnlyIfComplete ==
    /\ consumer = "returned" => Len(sink) = numberofstations
    /\ (SentinelRead /\ Len(sink) # numberofstations) => consumer = "raised"

\* two listed, one reported as not retrieved, one written
C2_Witness ==
    /\ consumer = "raised"
    /\ numberofstations = 2
    /\ Len(sink) = 1
    /\ \E i \in 1..nRead : piped[i].kind = "failed"

CountKind(messages, kind) ==
    Cardinality({i \in 1..Len(messages) : messages[i].kind = kind})

\* every remote call of worker w so far has raised
AlwaysFailed(w) == wk[w].calls >= 1 /\ wk[w].raised = wk[w].calls

Ended(w) == wk[w].pc \in {"exit", "dead"}

\* C3: a worker whose remote calls always fail ends after RETRY_COUNT
\* retries (RETRY_COUNT + 1 calls) with exactly one "could not be
\* retrieved" message, which names all the stations of its group; it never
\* makes a further call.
C3_RetriesThenOneFailure ==
    \A w \in Workers :
        /\ wk[w].calls <= settings.RETRY_COUNT + 1
        /\ AlwaysFailed(w) =>
             IF Ended(w)
             THEN /\ wk[w].calls = settings.RETRY_COUNT + 1
                  /\ CountKind(emitted[w], "retrying") = settings.RETRY_COUNT
                  /\ CountKind(emitted[w], "failed") = 1
                  /\ emitted[w][Len(emitted[w])] = FailedMsg(w, gs.groups[w])
             ELSE CountKind(emitted[w], "failed") = 0

C3_Witness ==
    \E w \in Workers :
        /\ wk[w].pc = "dead"
        /\ AlwaysFailed(w)
        /\ settings.RETRY_COUNT = 1
        /\ wk[w].calls = 2
        /\ Len(gs.groups[w]) = 2

\* every worker that is started ends
WorkersEnd == \A w \in Workers : (wk[w].pc = "call") ~> (wk[w].pc = "dead")

NoDuplicate(list) ==
    \A i, j \in 1..Len(list) : i # j => list[i] # list[j]

\* the triplets of the station records worker w has put
StationsPutBy(w) ==
    LET records == SelectSeq(emitted[w], LAMBDA m : m.kind = "station")
    IN  [i \in 1..Len(records) |-> records[i].ids[1]]

\* C4: the sink receives at most one record per identifier: no worker puts
\* a second record for an identifier it has delivered, and no two rows
\* have the same stationTriplet.  (Stated for the directory lists that name
\* no identifier twice, where a repeated record is never asked for.)
C4_AtMostOneRecordPerIdentifier ==
    NoDuplicate(directory) =>
        /\ \A w \in Workers : NoDuplicate(StationsPutBy(w))
        /\ NoDuplicate(sink)

\* a worker that got "a" in its first attempt and asked again for the rest
\* puts "a" a second time
RetryPutsDeliveredAgain ==
    \E w \in Workers :
        /\ NoDuplicate(directory)
        /\ wk[w].calls = 2
        /\ wk[w].raised = 0
        /\ wk[w].crashed
        /\ StationsPutBy(w) = <<"a", "a">>

\* what C4 says of the sink holds when the directory lists no identifier twice
OneRowPerListedIdentifier == NoDuplicate(directory) => NoDuplicate(sink)

\* QUEUE_DONE has been put
SentinelPut == Contains(piped, DoneMsg) \/ Contains(buffer[GS], DoneMsg)

\* the sentinel is put at most once, after every worker has ended, and is
\* the last object in the pipe; a consumer it stops has read every object put
SentinelLast ==
    /\ CountKind(piped \o buffer[GS], QUEUE_DONE) <= 1
    /\ SentinelPut => \A w \in Workers : ~IsAlive(w) /\ buffer[w] = <<>>
    /\ \A i \in 1..Len(piped) : piped[i] = DoneMsg => i = Len(piped)
    /\ SentinelRead => nRead = Len(piped)

\* C8: in every run of get_stations QUEUE_DONE is put exactly once, after
\* every worker has ended, so nothing follows it on the channel and the
\* consumer does not stop while a record is undelivered.
C8_SentinelOnceAfterAllWorkers ==
    /\ gs.pc \in {"exit", "done", "crashed"} =>
          CountKind(piped \o buffer[GS], QUEUE_DONE) = 1
    /\ SentinelLast

\* no process is left that could put anything
ProducersEnded ==
    /\ gs.pc \in {"done", "crashed"}
    /\ \A w \in Workers : ~IsAlive(w)
    /\ \A p \in Processes : buffer[p] = <<>>

\* C9: for every directory list, the empty one too, the sentinel is put and
\* the consumer loop ends: the consumer is never left waiting on an empty
\* channel that no process will write to.
C9_ConsumerNeverStranded ==
    ~(ProducersEnded /\ consumer = "loop" /\ nRead = Len(piped))

\* what C9 says holds when the directory lists at least one station
ConsumerNeverStrandedOnNonEmpty ==
    directory # <<>> => C9_ConsumerNeverStranded

\* under fairness the consumer loop of a non-empty directory ends
ConsumerLoopEnds == (directory # <<>>) => <>(consumer # "loop")

\* C10: the two messages of a worker's error report arrive next to each
\* other: no object of another process comes between them.
C10_ErrorPairsAdjacent ==
    \A i \in 1..(Len(piped) - 1) :
        piped[i].kind = "error" => piped[i + 1] = TracebackMsg(piped[i].by)

\* the lock does keep the two puts of a pair together
PairsPutTogether ==
    \A w \in Workers :
        \A i \in 1..(Len(emitted[w]) - 1) :
            emitted[w][i].kind = "error" => emitted[w][i + 1].kind = "traceback"

\* ------------------------------------------------- the attempts of a worker
AttemptsOf(w) == wk[w].attempts

\* the objects worker w put during its k-th call, before the next call began
PutIn(w, k) ==
    LET from == AttemptsOf(w)[k].first + 1
        to == IF k < Len(AttemptsOf(w)) THEN AttemptsOf(w)[k + 1].first
              ELSE Len(emitted[w])
    IN  SubSeq(emitted[w], from, to)

\* the triplets of the station records worker w put during its k-th call
DeliveredIn(w, k) ==
    {PutIn(w, k)[i].ids[1] :
        i \in {i \in 1..Len(PutIn(w, k)) : PutIn(w, k)[i].kind = "station"}}

Elements(list) == {list[i] : i \in 1..Len(list)}

\* the k-th call of worker w has reached line 236
AttemptOver(w, k) == AttemptsOf(w)[k].over

\* C11: an identifier whose record failed validation is in no later remote
\* request of the worker.
C11_InvalidNeverRequestedAgain ==
    \A w \in Workers : \A j, k \in 1..Len(AttemptsOf(w)) :
        j < k => AttemptsOf(w)[j].invalid \cap Elements(AttemptsOf(w)[k].stations) = {}

\* C11 as amended: a record that fails validation leaves the pending list as
\* it was, so that a requested identifier it names, unless a valid record
\* for it was put in the same attempt, is pending when the attempt is over,
\* is requested again by the retry if there is one and is named in the final
\* message otherwise.
C11_InvalidStaysPending ==
    \A w \in Workers : \A k \in 1..Len(AttemptsOf(w)) :
        AttemptOver(w, k) =>
            \A id \in (AttemptsOf(w)[k].invalid
                        \cap Elements(AttemptsOf(w)[k].stations))
                       \ DeliveredIn(w, k) :
                /\ Contains(AttemptsOf(w)[k].left, id)
                /\ k < Len(AttemptsOf(w)) =>
                       Contains(AttemptsOf(w)[k + 1].stations, id)
                /\ k = Len(AttemptsOf(w)) =>
                       IF wk[w].pc = "call" THEN Contains(wk[w].stations, id)
                       ELSE /\ emitted[w][Len(emitted[w])].kind = "failed"
                            /\ Contains(emitted[w][Len(emitted[w])].ids, id)

\* a worker asks again for "a" after the record of "a" failed validation
C11_Witness ==
    \E w \in Workers :
        /\ Len(AttemptsOf(w)) = 2
        /\ AttemptsOf(w)[1].invalid = {"a"}
        /\ DeliveredIn(w, 1) = {}
        /\ Contains(AttemptsOf(w)[2].stations, "a")

\* the identifiers named in the "could not be retrieved" messages of the workers
FailedNamedBy(w) ==
    UNION {Elements(emitted[w][i].ids) :
             i \in {i \in 1..Len(emitted[w]) : emitted[w][i].kind = "failed"}}

NamedFailed == UNION {FailedNamedBy(w) : w \in Workers}

\* C12: when the consumer reads the sentinel, every identifier of the
\* directory list has its record in the sink or is named in some worker's
\* final "could not be retrieved" message, whatever the service returned.
C12_NoIdentifierLost ==
    SentinelRead => Elements(directory) \subseteq Elements(sink) \cup NamedFailed

\* what C12 says holds when no worker died of the ValueError of line 232
NoIdentifierLostUnlessCrashed ==
    (SentinelRead /\ \A w \in Workers : ~wk[w].crashed) =>
        Elements(directory) \subseteq Elements(sink) \cup NamedFailed

\* worker w has met a failure: a remote call that raised, an exception while
\* it went through the records, or identifiers left when it ended
Failure(w) ==
    \/ wk[w].raised > 0
    \/ wk[w].crashed
    \/ Ended(w) /\ wk[w].stations # <<>>

Diagnostics(w) == {i \in 1..Len(emitted[w]) : IsMessage(emitted[w][i])}

\* C15: every failure inside a worker has put at least one diagnostic
\* message on the channel by the time the worker ends, whether a remote call
\* raised, identifiers were left unretrieved or the processing of the
\* returned records raised.
C15_FailureYieldsDiagnostic ==
    \A w \in Workers : (Ended(w) /\ Failure(w)) => Diagnostics(w) # {}

\* what C15 says holds of the failures that are not the ValueError of line 232
FailureYieldsDiagnosticUnlessCrashed ==
    \A w \in Workers :
        (Ended(w) /\ Failure(w) /\ ~wk[w].crashed) => Diagnostics(w) # {}

\* C17: when the remote call of an attempt raises, the worker puts no station
\* record in that attempt, only diagnostic messages, and the pending list
\* after the attempt is the list before it.
C17_RaisedAttemptKeepsPending ==
    \A w \in Workers : \A k \in 1..Len(AttemptsOf(w)) :
        AttemptsOf(w)[k].raised =>
            /\ \A i \in 1..Len(PutIn(w, k)) : IsMessage(PutIn(w, k)[i])
            /\ AttemptOver(w, k) => AttemptsOf(w)[k].left = AttemptsOf(w)[k].stations
            /\ k = Len(AttemptsOf(w)) => wk[w].stations = AttemptsOf(w)[k].stations

\* an attempt for two identifiers raised and is over: the exception and the
\* traceback were put and both identifiers are still pending
C17_Witness ==
    \E w \in Workers :
        /\ Len(AttemptsOf(w)) = 1
        /\ AttemptsOf(w)[1].raised
        /\ AttemptOver(w, 1)
        /\ Len(AttemptsOf(w)[1].left) = 2
        /\ Len(PutIn(w, 1)) >= 2
        /\ PutIn(w, 1)[1] = ErrorMsg(w)
        /\ PutIn(w, 1)[2] = TracebackMsg(w)

\* C18: an attempt that ends with identifiers pending and a positive retry
\* count is followed by one "retrying" message and by a next attempt for
\* exactly the pending identifiers, with the retry count one less; the pending
\* list is a part of the list the attempt asked for and never grows.
C18_RetryWithPendingOnly ==
    \A w \in Workers : \A k \in 1..Len(AttemptsOf(w)) :
        LET attempt == AttemptsOf(w)[k]
        IN  AttemptOver(w, k) =>
              /\ Elements(attempt.left) \subseteq Elements(attempt.stations)
              /\ Len(attempt.left) <= Len(attempt.stations)
              /\ (attempt.left # <<>> /\ attempt.recursiveCall > 0) =>
                   /\ CountKind(PutIn(w, k), "retrying") = 1
                   /\ CountKind(PutIn(w, k), "failed") = 0
                   /\ PutIn(w, k)[Len(PutIn(w, k))] = RetryingMsg(w)
                   /\ IF k < Len(AttemptsOf(w))
                      THEN /\ AttemptsOf(w)[k + 1].stations = attempt.left
                           /\ AttemptsOf(w)[k + 1].recursiveCall =
                                  attempt.recursiveCall - 1
                      ELSE /\ wk[w].pc = "call"
                           /\ wk[w].stations = attempt.left
                           /\ wk[w].recursiveCall = attempt.recursiveCall - 1

\* of two identifiers asked for, one was delivered and the other alone is
\* asked for again
C18_Witness ==
    \E w \in Workers :
        /\ Len(AttemptsOf(w)) = 2
        /\ Len(AttemptsOf(w)[1].stations) = 2
        /\ Cardinality(DeliveredIn(w, 1)) = 1
        /\ Len(AttemptsOf(w)[2].stations) = 1
        /\ AttemptsOf(w)[2].stations = AttemptsOf(w)[1].left
        /\ AttemptsOf(w)[1].recursiveCall = 1
        /\ AttemptsOf(w)[2].recursiveCall = 0

\* C19: an attempt that ends with identifiers pending and a retry count of
\* zero is the last one: the worker puts exactly one "could not be retrieved"
\* message, which lists exactly the pending identifiers (none that was
\* delivered, all that were not), makes no further call and returns.
C19_FinalMessageNamesPending ==
    \A w \in Workers : \A k \in 1..Len(AttemptsOf(w)) :
        LET attempt == AttemptsOf(w)[k]
        IN  (AttemptOver(w, k) /\ attempt.left # <<>> /\ attempt.recursiveCall = 0) =>
              /\ k = Len(AttemptsOf(w))
              /\ Ended(w)
              /\ wk[w].calls = k
              /\ CountKind(emitted[w], "failed") = 1
              /\ emitted[w][Len(emitted[w])] = FailedMsg(w, attempt.left)
              /\ wk[w].stations = attempt.left
              /\ NoDuplicate(directory) =>
                   Elements(attempt.left) =
                       Elements(gs.groups[w]) \ Elements(StationsPutBy(w))

\* a worker started with recursiveCall = 0 for two identifiers delivered
\* one and named the other in its last message
C19_Witness ==
    \E w \in Workers :
        /\ settings.RETRY_COUNT = 0
        /\ wk[w].pc = "dead"
        /\ Len(gs.groups[w]) = 2
        /\ Len(StationsPutBy(w)) = 1
        /\ CountKind(emitted[w], "failed") = 1
        /\ Len(emitted[w][Len(emitted[w])].ids) = 1

\* C20: in every attempt, first or retry, the worker makes one request:
\* getStationMetadata if and only if the list it asks for has exactly one
\* element, getStationMetadataMultiple with the whole list otherwise.
C20_SingleRequestIffOneIdentifier ==
    \A w \in Workers :
        /\ wk[w].calls = Len(AttemptsOf(w))
        /\ \A k \in 1..Len(AttemptsOf(w)) :
             /\ AttemptsOf(w)[k].method \in
                    {"getStationMetadata", "getStationMetadataMultiple"}
             /\ AttemptsOf(w)[k].method = "getStationMetadata" <=>
                    Len(AttemptsOf(w)[k].stations) = 1

\* a worker asked for two identifiers with the batched request and for the
\* one left with the single request
C20_Witness ==
    \E w \in Workers :
        /\ Len(AttemptsOf(w)) = 2
        /\ Len(AttemptsOf(w)[1].stations) = 2
        /\ AttemptsOf(w)[1].method = "getStationMetadataMultiple"
        /\ Len(AttemptsOf(w)[2].stations) = 1
        /\ AttemptsOf(w)[2].method = "getStationMetadata"

\* ------------------------------------------------------- the runs of main
\* the calls of get_network_stations main made for the j-th network
TriesOf(j) == SelectSeq(tried, LAMBDA t : t.network = NETWORKS[j])

\* every call main made for the j-th network raised
AllRaised(j) ==
    \A k \in 1..Len(TriesOf(j)) : TriesOf(j)[k].outcome # "returned"

\* how many lines of the summary say `line` of the j-th network
LinesOf(j, line) ==
    Cardinality({k \in 1..Len(summary) :
                    summary[k] = SummaryLine(FcNames[j], line)})

\* main has left the iteration of the j-th network
Past(j) == main.i > j

\* C13: a network whose retrieval raised on every attempt is logged as
\* failed and main goes on with the next network: the run is not aborted and
\* every later network is attempted.
C13_FailedNetworkSkipped ==
    /\ \A j \in 1..Len(NETWORKS) :
         /\ (Past(j) /\ AllRaised(j)) =>
               /\ LinesOf(j, "processing FAILED") = 1
               /\ LinesOf(j, "processed OK") = 0
         /\ Past(j) => TriesOf(j) # <<>>
    /\ main.pc \in {"update", "final", "returned", "raised"} =>
         main.i = Len(NETWORKS) + 1

\* the first network raised on both attempts and the second was retrieved
C13_Witness ==
    /\ Len(TriesOf(1)) = 2
    /\ AllRaised(1)
    /\ LinesOf(1, "processing FAILED") = 1
    /\ Len(TriesOf(2)) = 1
    /\ ~AllRaised(2)
    /\ main.pc = "returned"

Last(list) == list[Len(list)]

\* the step writes `line` to the summary log
Writes(line) ==
    /\ Len(summary') = Len(summary) + 1
    /\ Last(summary').line = line

\* C14: for every network main writes exactly one of the lines "processed
\* OK" and "processing FAILED": at most one at any time, one once it has gone
\* through the network, and "processed OK" only when get_network_stations
\* returned for that network and Project_management succeeded.
C14_OneOutcomeLinePerNetwork ==
    /\ [](\A j \in 1..Len(NETWORKS) :
            LET outcomes == LinesOf(j, "processed OK") + LinesOf(j, "processing FAILED")
            IN  /\ outcomes <= 1
                /\ Past(j) => outcomes = 1
                /\ ~Past(j) /\ main.i # j => outcomes = 0
                /\ LinesOf(j, "processed OK") = 1 =>
                      /\ TriesOf(j) # <<>>
                      /\ Last(TriesOf(j)).outcome = "returned")
    /\ [][Writes("processed OK") =>
            /\ Last(summary').of = fc_name
            /\ main.pc = "project"
            /\ main.fc = fc_name
            /\ main'.projectedfc = fc_name]_vars

\* the first network failed after two tries, the second was retrieved at the
\* second try and reprojected: one line each
C14_Witness ==
    /\ main.pc = "returned"
    /\ LinesOf(1, "processing FAILED") = 1
    /\ LinesOf(1, "processed OK") = 0
    /\ Len(TriesOf(2)) = 2
    /\ LinesOf(2, "processed OK") = 1
    /\ LinesOf(2, "processing FAILED") = 0

\* C16: when insertRow raises in the consumer loop, get_network_stations
\* returns no feature class: it raises, main takes the try for failed (fc
\* stays None, nothing is written to the summary, the loop of line 859 goes
\* on), and a network is logged as processed OK only on the strength of a
\* try that returned.
C16_InsertRowFailureFailsTheTry ==
    /\ [][consumer = "insertRow raised" =>
            \/ /\ consumer' = "insertRow raised"
               /\ main'.pc = main.pc /\ main'.fc = main.fc
               /\ UNCHANGED <<tried, summary>>
            \/ /\ main.pc = "get_network_stations"
               /\ main'.pc = "while"
               /\ main'.fc = None
               /\ tried' = Append(tried, Tried("insertRow raised"))
               /\ summary' = summary]_vars
    /\ [](\A j \in 1..Len(NETWORKS) :
            /\ (main.i = j /\ main.pc # "for" /\ Retrieved(main.fc)) =>
                   Last(TriesOf(j)).outcome = "returned"
            /\ LinesOf(j, "processed OK") = 1 =>
                   Last(TriesOf(j)).outcome = "returned")

\* the only try of a network ended by an exception of insertRow and the
\* network was logged as failed
C16_Witness ==
    /\ settings.RETRY_COUNT = 0
    /\ Len(TriesOf(1)) = 1
    /\ TriesOf(1)[1].outcome = "insertRow raised"
    /\ LinesOf(1, "processing FAILED") = 1
    /\ LinesOf(1, "processed OK") = 0

\* ------------------------------------------------------- the last claims
\* the step reads the next object of the queue
Reads == nRead' = nRead + 1

\* C21: reading a diagnostic message leaves the sink, the count and the
\* consumer's list as they were; reading a station record removes one
\* occurrence of its stationTriplet from the list, appends one row to the
\* sink and adds one to the count (an iteration that raises instead leaves
\* the loop with the sink and the count as they were).
C21_ConsumerFrame ==
    [][Reads =>
         /\ IsMessage(Got) =>
               UNCHANGED <<sink, countInserted, stationIDs, consumer>>
         /\ Got.kind = "station" =>
               IF consumer' = "loop"
               THEN /\ Len(stationIDs') = Len(stationIDs) - 1
                    /\ \E i \in 1..Len(stationIDs) :
                         /\ stationIDs[i] = Got.ids[1]
                         /\ stationIDs' = SubSeq(stationIDs, 1, i - 1)
                                          \o SubSeq(stationIDs, i + 1, Len(stationIDs))
                    /\ sink' = Append(sink, Got.ids[1])
                    /\ countInserted' = countInserted + 1
               ELSE UNCHANGED <<sink, countInserted>>]_vars

\* a message and then a record were read: one row, one identifier left
C21_Witness ==
    /\ directory = <<"a", "b">>
    /\ nRead = 2
    /\ IsMessage(piped[1])
    /\ piped[2].kind = "station"
    /\ sink = <<"b">>
    /\ stationIDs = <<"a">>
    /\ countInserted = 1
    /\ consumer = "loop"

\* C22: for each network main calls get_network_stations at most
\* RETRY_COUNT + 1 times, makes no call after one that returned, and takes the
\* network for failed only when RETRY_COUNT + 1 calls have raised.
C22_AtMostRetryCountPlusOneTries ==
    \A j \in 1..Len(NETWORKS) :
        /\ Len(TriesOf(j)) <= settings.RETRY_COUNT + 1
        /\ \A k \in 1..(Len(TriesOf(j)) - 1) : TriesOf(j)[k].outcome # "returned"
        /\ (main.i = j /\ main.pc = "if fc" /\ ~Retrieved(main.fc)) =>
               /\ Len(TriesOf(j)) = settings.RETRY_COUNT + 1
               /\ AllRaised(j)
        /\ (LinesOf(j, "processing FAILED") = 1 /\ AllRaised(j)) =>
               Len(TriesOf(j)) = settings.RETRY_COUNT + 1
        /\ (Past(j) /\ ~AllRaised(j)) => Last(TriesOf(j)).outcome = "returned"

\* with RETRY_COUNT = 1 the first network was retrieved at the second try and
\* the second network failed after two
C22_Witness ==
    /\ settings.RETRY_COUNT = 1
    /\ Len(TriesOf(1)) = 2
    /\ TriesOf(1)[1].outcome # "returned"
    /\ TriesOf(1)[2].outcome = "returned"
    /\ Len(TriesOf(2)) = 2
    /\ AllRaised(2)
    /\ LinesOf(2, "processing FAILED") = 1

\* the number of rows of the sink that carry the triplet
Rows(triplet) == Cardinality({i \in 1..Len(sink) : sink[i] = triplet})

\* C23: when get_network_stations returns, the consumer's list is empty and,
\* if the directory list names no identifier twice, every identifier of the
\* directory list has exactly one row in the sink.
C23_ReturnedMeansAllWrittenOnce ==
    consumer = "returned" =>
        /\ stationIDs = <<>>
        /\ NoDuplicate(directory) =>
              /\ \A id \in Elements(directory) : Rows(id) = 1
              /\ \A i \in 1..Len(sink) : sink[i] \in Elements(directory)

\* two stations listed, both written, the function returned
C23_Witness ==
    /\ consumer = "returned"
    /\ directory = <<"a", "b">>
    /\ Rows("a") = 1
    /\ Rows("b") = 1
    /\ stationIDs = <<>>

\* C24: over the tries main makes, the worker processes alive, those of
\* tries that raised included, are never more than WORKER_PROCESSES, and no
\* process of a try that raised is alive while the workers of a later try run.
C24_NoLeftoverProcessAtLaunch ==
    /\ main.leftover.workers + Cardinality(Running) <= settings.WORKER_PROCESSES
    /\ Running # {} => main.leftover = NoProcess

\* the triplets of the station records among the objects, in the order put
TripletsOf(objects) ==
    LET records == SelectSeq(objects, LAMBDA m : m.kind = "station")
    IN  [i \in 1..Len(records) |-> records[i].ids[1]]

\* how often x is in the list
Count(list, x) == Cardinality({i \in 1..Len(list) : list[i] = x})

\* the first call of worker w came to line 236 with nothing left of its list
AllRetrievedAtOnce(w) ==
    /\ AttemptsOf(w) # <<>>
    /\ AttemptOver(w, 1)
    /\ AttemptsOf(w)[1].left = <<>>

\* C25: a worker makes at most recursiveCall + 1 remote calls, each for a
\* list that is not empty, and none after a call that left its list empty;
\* when the first call leaves nothing of the list, what the worker has put
\* is one station record for each element of the list and no message.
C25_NoCallOnceNothingIsPending ==
    \A w \in Workers :
        /\ AttemptsOf(w) # <<>> =>
              Len(AttemptsOf(w)) <= AttemptsOf(w)[1].recursiveCall + 1
        /\ Len(AttemptsOf(w)) <= settings.RETRY_COUNT + 1
        /\ \A k \in 1..Len(AttemptsOf(w)) :
              /\ AttemptsOf(w)[k].stations # <<>>
              /\ k < Len(AttemptsOf(w)) =>
                    /\ AttemptOver(w, k)
                    /\ AttemptsOf(w)[k].left # <<>>
        /\ AllRetrievedAtOnce(w) =>
              /\ Len(AttemptsOf(w)) = 1
              /\ Diagnostics(w) = {}
              /\ Len(emitted[w]) = Len(AttemptsOf(w)[1].stations)
              /\ \A id \in Ids :
                    Count(TripletsOf(emitted[w]), id) = Count(AttemptsOf(w)[1].stations, id)

\* with a retry allowed, a worker asked for "a" and "b" got both at once and
\* ended after that one call
C25_Witness ==
    /\ settings.RETRY_COUNT = 1
    /\ AllRetrievedAtOnce(1)
    /\ AttemptsOf(1)[1].stations = <<"a", "b">>
    /\ AttemptsOf(1)[1].recursiveCall = 1
    /\ wk[1].pc = "dead"
    /\ Len(emitted[1]) = 2

\* C27: the copy for active is counted as done for a network (the line
\* "copied for active" written, copyerror taken back) only if the save of that
\* network was done in the same iteration; after a save that failed the copy
\* never works on the path of an earlier network.
C27_CopyCountedOnlyAfterOwnSave ==
    /\ \A j \in 1..Len(NETWORKS) :
          LinesOf(j, "copied for active") = 1 => LinesOf(j, "saved OK") = 1
    /\ main.copyerror >= main.archiveerror

\* retrieval and reprojection, the save and the copy for active were all
\* logged as done for the j-th network
AllStagesOK(j) ==
    /\ LinesOf(j, "processed OK") = 1
    /\ LinesOf(j, "saved OK") = 1
    /\ LinesOf(j, "copied for active") = 1

SomeNetworkFailed == \E j \in 1..Len(NETWORKS) : Past(j) /\ ~AllStagesOK(j)

AllOKWritten ==
    \E k \in 1..Len(summary) : summary[k].line = "web services updated OK"

\* "all web services updated OK" is written and the temp workspace removed
\* only if every stage was done for every network
OnlyIfAllStagesOK ==
    /\ AllOKWritten => \A j \in 1..Len(NETWORKS) : AllStagesOK(j)
    /\ main.templocation = "removed" => AllOKWritten
    /\ SomeNetworkFailed => (~AllOKWritten /\ main.templocation = "kept")

\* C26: "all web services updated OK" is written and the temp workspace
\* removed only if every stage was done for every network; if a network
\* failed at some stage, main ends with a "web services FAILED" line as the
\* last line of the summary and the temp data kept.
C26_FailureEndsWithFailedLine ==
    /\ OnlyIfAllStagesOK
    /\ (main.pc \in {"returned", "raised"} /\ SomeNetworkFailed) =>
          /\ Last(summary).line = "web services FAILED"
          /\ main.templocation = "kept"

\* C26 as the code has it: the line and the removal only if every stage was
\* done for every network; if a network failed at some stage the temp data is
\* kept, and the last line of the summary is a "web services FAILED" line
\* when main returns 0; when no network was reprojected main returns 300
\* with no such line.
C26_FailedLineWhenMainReturnsZero ==
    /\ OnlyIfAllStagesOK
    /\ (main.result = "0" /\ SomeNetworkFailed) =>
          /\ Last(summary).line = "web services FAILED"
          /\ main.templocation = "kept"
    /\ main.result = "300" =>
          /\ \A j \in 1..Len(NETWORKS) : LinesOf(j, "processed OK") = 0
          /\ \A k \in 1..Len(summary) : summary[k].line = "processing FAILED"

\* the first network was saved and copied, the save of the second failed:
\* main returned 0 after a "web services FAILED" line
C26_Witness ==
    /\ main.result = "0"
    /\ AllStagesOK(1)
    /\ LinesOf(2, "processed OK") = 1
    /\ LinesOf(2, "saved OK") = 0
    /\ Last(summary).line = "web services FAILED"
    /\ main.templocation = "kept"

====
